---- MODULE Spec2Model ----
(***************************************************************************)
(* Model of outlook_mcp_server.py: the four MCP tools and the process-wide *)
(* email_cache they share.  Tool calls are serialised, so every handler is *)
(* one atomic action.  Strings are sequences of one-character strings so   *)
(* that lower() and the substring test are computed, not assumed.          *)
(***************************************************************************)
EXTENDS Integers, Sequences, FiniteSets, TLC

VARIABLES
    inbox,        \* handles of the items stored in the default inbox
    email_cache,  \* the module-level dict: enumeration index -> item handle
    listing,      \* the listing/search call that last reached email_cache.clear()
    last          \* the most recent tool call and what it returned

vars == <<inbox, email_cache, listing, last>>

(***************************************************************************)
(* Bounds of the model.                                                    *)
(***************************************************************************)
MaxItems == 3      \* most items the inbox holds
MaxNumber == 6     \* largest email_number a caller passes

(***************************************************************************)
(* Program constants.                                                      *)
(***************************************************************************)
MAX_DAYS == 30

\* datetime.datetime.now(), in whole days; the days in Msg count from day 0
Now == MAX_DAYS

(***************************************************************************)
(* Strings.                                                                *)
(***************************************************************************)
LowerChar(c) ==
    CASE c = "A" -> "a"
      [] c = "B" -> "b"
      [] c = "M" -> "m"
      [] c = "R" -> "r"
      [] c = "I" -> "i"
      [] OTHER -> c

Lower(s) == [k \in 1..Len(s) |-> LowerChar(s[k])]

\* Python's  needle in hay  for str
Contains(needle, hay) ==
    \E k \in 0..(Len(hay) - Len(needle)) :
        SubSeq(hay, k + 1, k + Len(needle)) = needle

Digit(d) ==
    CASE d = 0 -> "0" [] d = 1 -> "1" [] d = 2 -> "2" [] d = 3 -> "3"
      [] d = 4 -> "4" [] d = 5 -> "5" [] d = 6 -> "6" [] d = 7 -> "7"
      [] d = 8 -> "8" [] OTHER -> "9"

RECURSIVE IntToStr(_)
\* str(i) for i >= 0
IntToStr(n) ==
    IF n < 10 THEN <<Digit(n)>> ELSE Append(IntToStr(n \div 10), Digit(n % 10))

DigitVal(c) == CHOOSE d \in 0..9 : Digit(d) = c

RECURSIVE StrToInt(_)
\* the number a decimal id denotes (what the caller passes back as email_number)
StrToInt(s) ==
    IF Len(s) = 0 THEN 0
    ELSE 10 * StrToInt(SubSeq(s, 1, Len(s) - 1)) + DigitVal(s[Len(s)])

(***************************************************************************)
(* The mail store.  A field is [ok, v]: reading it returns v, or raises    *)
(* when ok is FALSE.  ReceivedTime is [has, wall, tz]; has = FALSE is an   *)
(* item without a (truthy) ReceivedTime.                                   *)
(***************************************************************************)
F(s) == [ok |-> TRUE, v |-> s]
Raises == [ok |-> FALSE, v |-> <<>>]
At(day) == [has |-> TRUE, wall |-> day, tz |-> "UTC"]
NoReceivedTime == [has |-> FALSE, wall |-> 0, tz |-> "UTC"]

Item(t, subject, sender, body, address, atts) ==
    [ReceivedTime |-> t, Subject |-> subject, SenderName |-> sender,
     Body |-> body, SenderEmailAddress |-> address, UnRead |-> FALSE,
     Importance |-> 1, Attachments |-> atts]

Msg ==
    << Item(At(30), F(<<"x">>), F(<<"y">>), F(<<"A", "b">>), F(<<"p">>),
            <<[FileName |-> <<"f">>, Size |-> 1]>>),
       Item(At(29), F(<<"x">>), F(<<"y">>), Raises, F(<<"p">>), <<>>),
       Item(At(22), F(<<"a">>), F(<<"x">>), Raises, F(<<"p">>), <<>>),
       Item(At(21), F(<<"x">>), F(<<"a", "B">>), F(<<"z">>), F(<<"p">>), <<>>),
       Item(At(10), F(<<"a", "b">>), F(<<"y">>), F(<<>>), F(<<"p">>), <<>>),
       Item(NoReceivedTime, F(<<"a">>), F(<<"y">>), F(<<"z">>), F(<<"p">>), <<>>),
       Item(At(28), F(<<"a">>), Raises, F(<<"z">>), F(<<"p">>), <<>>) >>

Handles == 1..Len(Msg)

\* folder tree: one store whose children are the inbox and an archive
ArchiveItems == {1, 2, 3, 4, 5}

FolderTree ==
    [root    |-> [Name |-> <<"M", "b">>, Folders |-> <<"inbox", "archive">>],
     inbox   |-> [Name |-> <<"I", "n">>, Folders |-> <<>>],
     archive |-> [Name |-> <<"A", "r">>, Folders |-> <<>>]]

RootFolders == <<"root">>

FolderItems(f) ==
    IF f = "inbox" THEN inbox ELSE IF f = "archive" THEN ArchiveItems ELSE {}

(***************************************************************************)
(* get_folder_by_name                                                      *)
(***************************************************************************)
NameMatches(f, folder_name) == Lower(FolderTree[f].Name) = Lower(folder_name)

\* the root folders and their subfolders in the order lines 108-115 visit them
RootWalk ==
    <<"root">> \o FolderTree["root"].Folders

FirstMatch(seq, folder_name) ==
    IF \E k \in 1..Len(seq) : NameMatches(seq[k], folder_name)
    THEN seq[CHOOSE k \in 1..Len(seq) :
                /\ NameMatches(seq[k], folder_name)
                /\ \A j \in 1..(k - 1) : ~NameMatches(seq[j], folder_name)]
    ELSE "notfound"

get_folder_by_name(folder_name) ==
    IF Len(folder_name) = 0 THEN "inbox"
    ELSE IF FirstMatch(FolderTree["inbox"].Folders, folder_name) # "notfound"
         THEN FirstMatch(FolderTree["inbox"].Folders, folder_name)
         ELSE FirstMatch(RootWalk, folder_name)

(***************************************************************************)
(* folder_items.Sort("[ReceivedTime]", True): newest first.  Where the     *)
(* provider puts an item without ReceivedTime, and how it orders equal     *)
(* times, is not fixed by the code, so every such order is possible.       *)
(***************************************************************************)
Heads(S) ==
    {m \in S : \/ ~Msg[m].ReceivedTime.has
               \/ \A x \in S : Msg[x].ReceivedTime.has
                      => Msg[x].ReceivedTime.wall <= Msg[m].ReceivedTime.wall}

RECURSIVE Sort(_)
Sort(S) ==
    IF S = {} THEN {<<>>}
    ELSE UNION {{<<m>> \o v : v \in Sort(S \ {m})} : m \in Heads(S)}

(***************************************************************************)
(* email_cache                                                             *)
(***************************************************************************)
EmptyCache == <<>>

\* variant of Clear: the dict is not cleared
ClearNothing(cache) == cache

Clear(cache) == EmptyCache

\* variant of Put: the entry is stored under the count of entries, not under k
PutUnderCount(cache, k, h) ==
    [x \in (DOMAIN cache) \cup {Cardinality(DOMAIN cache) + 1} |->
        IF x = Cardinality(DOMAIN cache) + 1 THEN h ELSE cache[x]]

Put(cache, k, h) ==
    [x \in (DOMAIN cache) \cup {k} |-> IF x = k THEN h ELSE cache[x]]

(***************************************************************************)
(* Per-item steps shared by the two enumeration loops.                     *)
(***************************************************************************)
\* hasattr(item, 'ReceivedTime') and item.ReceivedTime
HasReceivedTime(item) == item.ReceivedTime.has

\* item.ReceivedTime.replace(tzinfo=None): the wall-clock value without its zone
StripTz(t) == t.wall

\* received_time.strftime("%Y-%m-%d %H:%M:%S")
Strftime(wall) == IntToStr(wall)

\* variant of ThresholdDate: the window is a day too long
ThresholdDateDayEarly(now, days) == now - (days + 1)

\* threshold_date = now - datetime.timedelta(days=days)
ThresholdDate(now, days) == now - days

\* received_time < threshold_date
BeforeThreshold(received_time, threshold_date) == received_time < threshold_date

\* variant of ValidDays: zero days accepted
ValidDaysFromZero(days) == days >= 0 /\ days <= MAX_DAYS

\* not isinstance(days, int) or days < 1 or days > MAX_DAYS, negated; the tool
\* signature types days as int, so only integers arrive
ValidDays(days) == days >= 1 /\ days <= MAX_DAYS

\* variant of EmailId: the id counts the summaries, not the items enumerated
EmailIdByCount(i, emails_list) == IntToStr(Len(emails_list) + 1)

\* "id": str(i)
EmailId(i, emails_list) == IntToStr(i)

\* building email_data reads Subject, SenderName, SenderEmailAddress
EmailDataRaises(item) ==
    ~item.Subject.ok \/ ~item.SenderName.ok \/ ~item.SenderEmailAddress.ok

EmailData(i, item, emails_list) ==
    [id |-> EmailId(i, emails_list),
     subject |-> item.Subject.v,
     sender |-> item.SenderName.v,
     sender_email |-> item.SenderEmailAddress.v,
     received_time |-> Strftime(StripTz(item.ReceivedTime)),
     read_status |-> IF ~item.UnRead THEN "Read" ELSE "Unread",
     has_attachments |-> Len(item.Attachments) > 0]

\* variant of FieldContains: the field is compared as it is, not lower-cased
FieldContainsExact(search_term_lower, field) == Contains(search_term_lower, field.v)

\* one operand of the  or  chain: search_term_lower in (field or "").lower()
FieldContains(search_term_lower, field) == Contains(search_term_lower, Lower(field.v))

\* the  or  chain of lines 283-285, left to right with short circuit
SearchMatch(item, search_term_lower) ==
    IF ~item.Subject.ok THEN "raise"
    ELSE IF FieldContains(search_term_lower, item.Subject) THEN "match"
    ELSE IF ~item.SenderName.ok THEN "raise"
    ELSE IF FieldContains(search_term_lower, item.SenderName) THEN "match"
    ELSE IF ~item.Body.ok THEN "raise"
    ELSE IF FieldContains(search_term_lower, item.Body) THEN "match"
    ELSE "nomatch"

RECURSIVE ListLoop(_, _, _, _, _)
\* the for loop of outlook_list_recent_emails from index i on
ListLoop(view, i, threshold_date, cache, emails_list) ==
    IF i > Len(view)
    THEN [cache |-> cache, emails |-> emails_list, raised |-> FALSE]
    ELSE LET item == Msg[view[i]] IN
         IF ~HasReceivedTime(item)
         THEN ListLoop(view, i + 1, threshold_date, cache, emails_list)
         ELSE IF BeforeThreshold(StripTz(item.ReceivedTime), threshold_date)
         THEN [cache |-> cache, emails |-> emails_list, raised |-> FALSE]
         ELSE IF EmailDataRaises(item)
         THEN [cache |-> cache, emails |-> emails_list, raised |-> TRUE]
         ELSE ListLoop(view, i + 1, threshold_date, Put(cache, i, view[i]),
                       Append(emails_list, EmailData(i, item, emails_list)))

RECURSIVE SearchLoopNoTry(_, _, _, _, _, _)
\* variant of SearchLoop: no try/except around the item, a raising read ends
\* the loop as it does in the listing
SearchLoopNoTry(view, i, threshold_date, search_term_lower, cache, emails_list) ==
    IF i > Len(view)
    THEN [cache |-> cache, emails |-> emails_list, raised |-> FALSE]
    ELSE LET item == Msg[view[i]] IN
         IF ~HasReceivedTime(item)
         THEN SearchLoopNoTry(view, i + 1, threshold_date, search_term_lower,
                              cache, emails_list)
         ELSE IF BeforeThreshold(StripTz(item.ReceivedTime), threshold_date)
         THEN [cache |-> cache, emails |-> emails_list, raised |-> FALSE]
         ELSE IF SearchMatch(item, search_term_lower) = "raise"
         THEN [cache |-> cache, emails |-> emails_list, raised |-> TRUE]
         ELSE IF SearchMatch(item, search_term_lower) = "nomatch"
         THEN SearchLoopNoTry(view, i + 1, threshold_date, search_term_lower,
                              cache, emails_list)
         ELSE IF EmailDataRaises(item)
         THEN [cache |-> cache, emails |-> emails_list, raised |-> TRUE]
         ELSE SearchLoopNoTry(view, i + 1, threshold_date, search_term_lower,
                              Put(cache, i, view[i]),
                              Append(emails_list, EmailData(i, item, emails_list)))

RECURSIVE SearchLoop(_, _, _, _, _, _)
\* the for loop of outlook_search_emails from index i on
SearchLoop(view, i, threshold_date, search_term_lower, cache, emails_list) ==
    IF i > Len(view)
    THEN [cache |-> cache, emails |-> emails_list, raised |-> FALSE]
    ELSE LET item == Msg[view[i]] IN
         IF ~HasReceivedTime(item)
         THEN SearchLoop(view, i + 1, threshold_date, search_term_lower,
                         cache, emails_list)
         ELSE IF BeforeThreshold(StripTz(item.ReceivedTime), threshold_date)
         THEN [cache |-> cache, emails |-> emails_list, raised |-> FALSE]
         ELSE IF /\ SearchMatch(item, search_term_lower) = "match"
                 /\ ~EmailDataRaises(item)
         THEN SearchLoop(view, i + 1, threshold_date, search_term_lower,
                         Put(cache, i, view[i]),
                         Append(emails_list, EmailData(i, item, emails_list)))
         ELSE SearchLoop(view, i + 1, threshold_date, search_term_lower,
                         cache, emails_list)

(***************************************************************************)
(* Inputs of the tool calls.                                               *)
(***************************************************************************)
DaysInputs == {0, 7, MAX_DAYS, MAX_DAYS + 1}
TermInputs == {<<>>, <<"a">>, <<"A", "B">>}
FolderNameInputs == {<<>>, <<"a", "r">>, <<"z">>}
BackendInputs == {"ok", "down", "items_fail"}
NumberInputs == 0..MaxNumber

NoListing ==
    [op |-> "none", days |-> 0, term |-> <<>>, now |-> 0, view |-> <<>>,
     status |-> "none", emails |-> <<>>]

Call(op, days, term, status, stage, emails) ==
    [op |-> op, days |-> days, term |-> term, number |-> 0, status |-> status, stage |-> stage, emails |-> emails,
     detail |-> <<>>]

\* a listing/search call that returns {"error": ...} before email_cache.clear()
FailEarly(op, days, term, stage) ==
    /\ last' = Call(op, days, term, "error", stage, <<>>)
    /\ UNCHANGED <<inbox, email_cache, listing>>

\* the rest of a listing/search call from email_cache.clear() on
Enumerate(op, days, term, backend, view, loop) ==
    IF backend = "items_fail"
    THEN /\ email_cache' = Clear(email_cache)
         /\ listing' = [op |-> op, days |-> days, term |-> term, now |-> Now,
                        view |-> <<>>, status |-> "error", emails |-> <<>>]
         /\ last' = Call(op, days, term, "error", "items", <<>>)
         /\ UNCHANGED inbox
    ELSE /\ email_cache' = loop.cache
         /\ listing' = [op |-> op, days |-> days, term |-> term, now |-> Now,
                        view |-> view,
                        status |-> IF loop.raised THEN "error" ELSE "success",
                        emails |-> IF loop.raised THEN <<>> ELSE loop.emails]
         /\ last' = IF loop.raised
                    THEN Call(op, days, term, "error", "loop", <<>>)
                    ELSE Call(op, days, term, "success", "done",
                              loop.emails)
         /\ UNCHANGED inbox

\* folder_name and the state of the backend are read where the handler first
\* consults them: safe_connect_to_outlook, get_folder_by_name, folder.Items
outlook_list_recent_emails(days) ==
    IF ~ValidDays(days)
    THEN FailEarly("list", days, <<>>, "validate")
    ELSE \E backend \in BackendInputs :
         IF backend = "down"
         THEN FailEarly("list", days, <<>>, "connect")
         ELSE \E folder_name \in FolderNameInputs :
              IF get_folder_by_name(folder_name) = "notfound"
              THEN FailEarly("list", days, <<>>, "folder")
              ELSE \E view \in Sort(FolderItems(get_folder_by_name(folder_name))) :
                      Enumerate("list", days, <<>>, backend, view,
                                ListLoop(view, 1, ThresholdDate(Now, days),
                                         Clear(email_cache), <<>>))

outlook_search_emails(search_term, days) ==
    IF Len(search_term) = 0
    THEN FailEarly("search", days, search_term, "validate")
    ELSE IF ~ValidDays(days)
    THEN FailEarly("search", days, search_term, "validate")
    ELSE \E backend \in BackendInputs :
         IF backend = "down"
         THEN FailEarly("search", days, search_term, "connect")
         ELSE \E folder_name \in FolderNameInputs :
              IF get_folder_by_name(folder_name) = "notfound"
              THEN FailEarly("search", days, search_term, "folder")
              ELSE \E view \in Sort(FolderItems(get_folder_by_name(folder_name))) :
                      Enumerate("search", days, search_term, backend, view,
                                SearchLoop(view, 1, ThresholdDate(Now, days),
                                           Lower(search_term),
                                           Clear(email_cache), <<>>))

(***************************************************************************)
(* outlook_get_email_by_number                                             *)
(***************************************************************************)
\* building email_details reads Subject, SenderName, SenderEmailAddress, Body
EmailDetailsRaises(item) ==
    \/ ~item.Subject.ok \/ ~item.SenderName.ok
    \/ ~item.SenderEmailAddress.ok \/ ~item.Body.ok

EmailDetails(item) ==
    [subject |-> item.Subject.v,
     sender |-> item.SenderName.v,
     sender_email |-> item.SenderEmailAddress.v,
     received_time |-> IF item.ReceivedTime.has
                       THEN Strftime(item.ReceivedTime.wall) ELSE <<>>,
     body |-> item.Body.v,
     read_status |-> IF ~item.UnRead THEN "Read" ELSE "Unread",
     importance |-> item.Importance,
     has_attachments |-> Len(item.Attachments) > 0,
     attachments |-> [k \in 1..Len(item.Attachments) |->
                        [filename |-> item.Attachments[k].FileName,
                         size |-> item.Attachments[k].Size]]]

GetResult(email_number, status, detail) ==
    [op |-> "get", days |-> 0, term |-> <<>>,
     number |-> email_number, status |-> status, stage |-> "done",
     emails |-> <<>>, detail |-> detail]

\* variant of outlook_get_email_by_number: the membership test comes first
outlook_get_email_by_number_MembershipFirst(email_number) ==
    /\ last' =
         IF email_number \notin DOMAIN email_cache
         THEN GetResult(email_number, "not_found", <<>>)
         ELSE IF EmailDetailsRaises(Msg[email_cache[email_number]])
         THEN GetResult(email_number, "error", <<>>)
         ELSE GetResult(email_number, "detail",
                        EmailDetails(Msg[email_cache[email_number]]))
    /\ UNCHANGED <<inbox, email_cache, listing>>

\* variant of outlook_get_email_by_number: a hit takes the entry out of the dict
outlook_get_email_by_number_Pop(email_number) ==
    /\ last' =
         IF email_cache = EmptyCache
         THEN GetResult(email_number, "no_listing", <<>>)
         ELSE IF email_number \notin DOMAIN email_cache
         THEN GetResult(email_number, "not_found", <<>>)
         ELSE IF EmailDetailsRaises(Msg[email_cache[email_number]])
         THEN GetResult(email_number, "error", <<>>)
         ELSE GetResult(email_number, "detail",
                        EmailDetails(Msg[email_cache[email_number]]))
    /\ email_cache' =
         [x \in (DOMAIN email_cache) \ {email_number} |-> email_cache[x]]
    /\ UNCHANGED <<inbox, listing>>

outlook_get_email_by_number(email_number) ==
    /\ last' =
         IF email_cache = EmptyCache
         THEN GetResult(email_number, "no_listing", <<>>)
         ELSE IF email_number \notin DOMAIN email_cache
         THEN GetResult(email_number, "not_found", <<>>)
         ELSE IF EmailDetailsRaises(Msg[email_cache[email_number]])
         THEN GetResult(email_number, "error", <<>>)
         ELSE GetResult(email_number, "detail",
                        EmailDetails(Msg[email_cache[email_number]]))
    /\ UNCHANGED <<inbox, email_cache, listing>>

(***************************************************************************)
(* outlook_list_folders                                                    *)
(***************************************************************************)
RECURSIVE FolderLines(_, _)
\* the nested loops of lines 139-151: a folder's line, then its subfolders'
FolderLines(f, depth) ==
    LET subs == FolderTree[f].Folders
        Sub[k \in 0..Len(subs)] ==
            IF k = 0 THEN <<>>
            ELSE Sub[k - 1] \o FolderLines(subs[k], depth + 1)
    IN  <<[depth |-> depth, name |-> FolderTree[f].Name]>>
        \o (IF depth < 2 THEN Sub[Len(subs)] ELSE <<>>)

outlook_list_folders(backend) ==
    /\ last' = [op |-> "folders", days |-> 0, term |-> <<>>, number |-> 0,
                status |-> IF backend = "down" THEN "error" ELSE "success",
                stage |-> IF backend = "down" THEN "connect" ELSE "done",
                emails |-> <<>>,
                detail |-> IF backend = "down" THEN <<>>
                           ELSE FolderLines(RootFolders[1], 0)]
    /\ UNCHANGED <<inbox, email_cache, listing>>

Init ==
    /\ inbox \in {S \in SUBSET Handles : Cardinality(S) <= MaxItems}
    /\ email_cache = EmptyCache
    /\ listing = NoListing
    /\ last = [op |-> "start", days |-> 0, term |-> <<>>,
               number |-> 0, status |-> "none", stage |-> "done",
               emails |-> <<>>, detail |-> <<>>]

ListRecentEmails ==
    \E days \in DaysInputs : outlook_list_recent_emails(days)

SearchEmails ==
    \E search_term \in TermInputs, days \in DaysInputs :
        outlook_search_emails(search_term, days)

GetEmailByNumber ==
    \E email_number \in NumberInputs : outlook_get_email_by_number(email_number)

ListFolders ==
    \E backend \in BackendInputs : outlook_list_folders(backend)

Next ==
    \/ ListRecentEmails
    \/ SearchEmails
    \/ GetEmailByNumber
    \/ ListFolders

Spec == Init /\ [][Next]_vars

(***************************************************************************)
(* Vocabulary of the properties.  These describe a call from outside: the  *)
(* view it enumerated, its threshold and what it handed back.              *)
(***************************************************************************)
IsListingOp(op) == op \in {"list", "search"}

\* the numbers the caller reads off the returned summaries
Ids(emails) == {StrToInt(emails[j].id) : j \in 1..Len(emails)}

\* the summary shows the fields of this item
Describes(summary, item) ==
    /\ item.Subject.ok /\ summary.subject = item.Subject.v
    /\ item.SenderName.ok /\ summary.sender = item.SenderName.v
    /\ item.SenderEmailAddress.ok
    /\ summary.sender_email = item.SenderEmailAddress.v
    /\ item.ReceivedTime.has
    /\ StrToInt(summary.received_time) = item.ReceivedTime.wall

\* the item has a received time older than  now - days
Older(h, now, days) ==
    Msg[h].ReceivedTime.has /\ now - Msg[h].ReceivedTime.wall > days

\* position k comes before the first older item of the view
BeforeExit(view, k, now, days) == \A j \in 1..k : ~Older(view[j], now, days)

\* the item at position k is one the loop works on
Reached(view, k, now, days) ==
    BeforeExit(view, k, now, days) /\ Msg[view[k]].ReceivedTime.has

\* some readable field among subject, sender name and body holds the term,
\* letter case aside
HoldsTerm(item, term) ==
    \E f \in {item.Subject, item.SenderName, item.Body} :
        f.ok /\ Contains(Lower(term), Lower(f.v))

C2_OneGeneration ==
    (IsListingOp(last.op) /\ last.status = "success") =>
        /\ DOMAIN email_cache = Ids(last.emails)
        /\ Cardinality(DOMAIN email_cache) = Len(last.emails)
        /\ \A j \in 1..Len(last.emails) :
              LET p == StrToInt(last.emails[j].id) IN
              p \in DOMAIN email_cache
                  => Describes(last.emails[j], Msg[email_cache[p]])

\* a successful listing of a folder in which only part of the items is recent
C2_Witness ==
    /\ last.op = "list" /\ last.status = "success"
    /\ Len(last.emails) = 2
    /\ Len(listing.view) > 2
    /\ DOMAIN email_cache = {1, 2}

\* what a listing/search call that reached the reset may leave in the cache:
\* only items of the view it enumerated, at their positions, inside its window
NewEntriesOnly(cache, l) ==
    \A k \in DOMAIN cache :
        /\ k \in 1..Len(l.view)
        /\ cache[k] = l.view[k]
        /\ Reached(l.view, k, l.now, l.days)
        /\ l.op = "search" => HoldsTerm(Msg[l.view[k]], l.term)

ReturnsBeforeReset(call) == call.stage \in {"validate", "connect", "folder"}

(***************************************************************************)
(* C3 as stated: every listing or search call, whatever its arguments and  *)
(* however it ends, empties the cache of what was there before it.         *)
(***************************************************************************)
C3_EveryCallClears ==
    [][IsListingOp(last'.op) =>
          IF ReturnsBeforeReset(last')
          THEN email_cache' = EmptyCache
          ELSE NewEntriesOnly(email_cache', listing')]_vars

(***************************************************************************)
(* C3 amended: a listing or search call that passes validation, connects   *)
(* and resolves its folder clears the cache before it adds an entry,       *)
(* whether it then succeeds or fails; a call that returns its error before *)
(* that point leaves the cache, and the ordinals handed out, as they were. *)
(***************************************************************************)
C3_ClearsOnceFolderResolved ==
    [][IsListingOp(last'.op) =>
          IF ReturnsBeforeReset(last')
          THEN email_cache' = email_cache /\ listing' = listing
          ELSE NewEntriesOnly(email_cache', listing')]_vars

\* a rejected call after which the earlier generation is still in the cache
C3_Witness ==
    /\ IsListingOp(last.op) /\ last.stage = "validate"
    /\ Cardinality(DOMAIN email_cache) >= 3

(***************************************************************************)
(* C4 as stated: a lookup before any listing returns the no-prior-listing  *)
(* error, and once a listing or search has succeeded a lookup of a number  *)
(* that is not in the cache returns the not-in-current-listing error, also *)
(* when that listing returned no summaries.                                *)
(***************************************************************************)
C4_ErrorsByHistory ==
    last.op = "get" =>
        /\ listing.op = "none" => last.status = "no_listing"
        /\ (listing.status = "success"
              /\ last.number \notin DOMAIN email_cache)
              => last.status = "not_found"

(***************************************************************************)
(* C4 amended: the two lookup errors are told apart by whether the cache   *)
(* is empty.  Before any listing or search reached the reset, and after a  *)
(* successful one that returned no summaries, every lookup returns the     *)
(* no-prior-listing error; after a successful one that returned at least   *)
(* one summary, a number that was not returned gets the                    *)
(* not-in-current-listing error.                                           *)
(***************************************************************************)
C4_ErrorsByEmptiness ==
    last.op = "get" =>
        /\ last.status = "no_listing" <=> email_cache = EmptyCache
        /\ last.status = "not_found" <=>
              (email_cache # EmptyCache /\ last.number \notin DOMAIN email_cache)
        /\ listing.op = "none" => last.status = "no_listing"
        /\ (listing.status = "success" /\ Len(listing.emails) = 0)
              => last.status = "no_listing"
        /\ (listing.status = "success" /\ Len(listing.emails) > 0
              /\ last.number \notin Ids(listing.emails))
              => last.status = "not_found"

\* a lookup after a successful search that matched nothing
C4_Witness ==
    /\ last.op = "get" /\ last.status = "no_listing"
    /\ listing.op = "search" /\ listing.status = "success"
    /\ Len(listing.view) > 0 /\ Len(listing.emails) = 0

\* the view is newest first among the items that have a received time
NewestFirst(view) ==
    \A i, j \in 1..Len(view) :
        (i < j /\ Msg[view[i]].ReceivedTime.has /\ Msg[view[j]].ReceivedTime.has)
            => Msg[view[i]].ReceivedTime.wall >= Msg[view[j]].ReceivedTime.wall

\* how many days ago each item of the view was received
DaysAgo(view, now) == [k \in 1..Len(view) |-> now - Msg[view[k]].ReceivedTime.wall]

(***************************************************************************)
(* C5: listing and search enumerate newest first, and the first item older *)
(* than  now - days  ends the enumeration: neither it nor any item after   *)
(* it is returned or cached.  A folder with items 0, 1, 8, 9 and 20 days   *)
(* old listed with days = 7 yields the first two, numbered 1 and 2.        *)
(***************************************************************************)
C5_EarlyExit ==
    /\ IsListingOp(listing.op) =>
          /\ NewestFirst(listing.view)
          /\ \A k \in 1..Len(listing.view) :
                ~BeforeExit(listing.view, k, listing.now, listing.days)
                    => /\ k \notin DOMAIN email_cache
                       /\ k \notin Ids(listing.emails)
    /\ (/\ last.op = "list" /\ last.status = "success" /\ last.days = 7
        /\ \A k \in 1..Len(listing.view) : Msg[listing.view[k]].ReceivedTime.has
        /\ DaysAgo(listing.view, listing.now) = <<0, 1, 8, 9, 20>>)
          => /\ Len(last.emails) = 2
             /\ last.emails[1].id = <<"1">> /\ last.emails[2].id = <<"2">>
             /\ Describes(last.emails[1], Msg[listing.view[1]])
             /\ Describes(last.emails[2], Msg[listing.view[2]])
             /\ DOMAIN email_cache = {1, 2}

\* the listing of the scenario
C5_Witness ==
    /\ last.op = "list" /\ last.status = "success" /\ last.days = 7
    /\ Len(listing.view) = 5
    /\ \A k \in 1..Len(listing.view) : Msg[listing.view[k]].ReceivedTime.has
    /\ DaysAgo(listing.view, listing.now) = <<0, 1, 8, 9, 20>>
    /\ Len(last.emails) = 2

(***************************************************************************)
(* C6: a search with a non-empty term returns a summary for an item        *)
(* exactly when the item is enumerated before the early exit, has a        *)
(* received time inside the window, holds the term in its subject, sender  *)
(* name or body whatever the letter case, and none of the fields the       *)
(* search read of it raised.                                               *)
(***************************************************************************)
C6_SearchReturnsMatches ==
    (listing.op = "search" /\ listing.status = "success") =>
        \A k \in 1..Len(listing.view) :
            LET item == Msg[listing.view[k]] IN
            k \in Ids(listing.emails)
                <=> /\ Reached(listing.view, k, listing.now, listing.days)
                    /\ HoldsTerm(item, listing.term)
                    /\ item.Subject.ok
                    /\ item.SenderName.ok
                    /\ item.SenderEmailAddress.ok

\* a search for an upper-case term that found lower- and mixed-case text
C6_Witness ==
    /\ last.op = "search" /\ last.status = "success"
    /\ last.term = <<"A", "B">>
    /\ Len(last.emails) >= 2

(***************************************************************************)
(* C7: a listing or search call with days outside 1..30, or a search with  *)
(* an empty term, returns an error result - never a success, never         *)
(* anything else - and is rejected before the backend is consulted.        *)
(***************************************************************************)
C7_InvalidArgumentsRejected ==
    /\ last.status \in {"none", "success", "error", "detail", "no_listing",
                        "not_found"}
    /\ IsListingOp(last.op) => last.status \in {"success", "error"}
    /\ (/\ IsListingOp(last.op)
        /\ \/ last.days < 1
           \/ last.days > 30
           \/ (last.op = "search" /\ Len(last.term) = 0))
          => last.status = "error" /\ last.stage = "validate"

\* a search with an empty term and an otherwise valid day count
C7_Witness ==
    /\ last.op = "search" /\ Len(last.term) = 0 /\ last.days = 7
    /\ last.status = "error"

\* a read of the item's subject, sender name or body would raise
HasUnreadableField(item) ==
    ~item.Subject.ok \/ ~item.SenderName.ok \/ ~item.Body.ok

\* the search reads a field of the item that raises: the subject and the sender
\* name are always read, the body only when neither of them holds the term
SearchReadRaises(item, term) ==
    \/ ~item.Subject.ok
    \/ ~item.SenderName.ok
    \/ /\ ~item.Body.ok
       /\ ~Contains(Lower(term), Lower(item.Subject.v))
       /\ ~Contains(Lower(term), Lower(item.SenderName.v))

C9_LookupsLeaveCache ==
    [][/\ last'.op \in {"get", "folders"}
          => /\ email_cache' = email_cache
             /\ listing' = listing
       /\ (last.op = "get" /\ last'.op = "get" /\ last'.number = last.number)
          => last' = last]_vars

\* a lookup that found its item, the cache still holding the whole generation
C9_Witness ==
    /\ last.op = "get" /\ last.status = "detail"
    /\ last.number \in DOMAIN email_cache
    /\ DOMAIN email_cache = Ids(listing.emails)
    /\ Len(listing.emails) >= 2

(***************************************************************************)
(* C10: a lookup by number finds an item only for an id that the most      *)
(* recent listing or search call to reach the reset returned in its        *)
(* summaries; a call that ended in an error result returned none, so it    *)
(* leaves nothing in the cache.                                            *)
(***************************************************************************)
C10_OnlyReturnedIdsResolve ==
    /\ DOMAIN email_cache \subseteq Ids(listing.emails)
    /\ (last.op = "get" /\ last.status \in {"detail", "error"})
          => last.number \in Ids(listing.emails)

====
